---- MODULE Spec2Model ----
(***************************************************************************)
(* A model of pkg/webhook: the admissionWebhook descriptor (lazy one-time  *)
(* defaulting, validation) and generatorOptions.Generate, which builds the *)
(* MutatingWebhookConfiguration, ValidatingWebhookConfiguration and        *)
(* Service objects from a registry of descriptors.                         *)
(*                                                                         *)
(* Go strings that the code inspects byte by byte (names, paths, hosts,    *)
(* URLs) are sequences of byte values; strings that are only copied and    *)
(* tested for emptiness are TLA+ strings.  A Go pointer or interface that  *)
(* may be nil is a sequence of length 0 (nil) or 1 (the value).            *)
(***************************************************************************)
EXTENDS Integers, Sequences, FiniteSets, TLC

\* ------------------------------------------------------------- bounds

\* Number of paths a registry may hold.
MaxWebhooks == 2

\* Number of goroutines calling the accessors of one descriptor.
NumProcs == 2

\* ------------------------------------------------------------ strings

\* "/mutate-"
MutatePrefix == <<47, 109, 117, 116, 97, 116, 101, 45>>

\* "/validate-"
ValidatePrefix == <<47, 118, 97, 108, 105, 100, 97, 116, 101, 45>>

\* ".example.com"
NameSuffix == <<46, 101, 120, 97, 109, 112, 108, 101, 46, 99, 111, 109>>

\* "pods", "Jobs"
ResPods == <<112, 111, 100, 115>>
ResJobs == <<74, 111, 98, 115>>

\* The character class a-zA-Z0-9 of the regular expression.
IsAlnum(c) == (c >= 48 /\ c <= 57) \/ (c >= 65 /\ c <= 90) \/ (c >= 97 /\ c <= 122)

\* regexp "[^a-zA-Z0-9]+" . ReplaceAllString(s, ""): scanning from the left,
\* every maximal run of bytes outside the class is one match, replaced by
\* the empty string.
RECURSIVE SkipRun(_)
SkipRun(s) ==
  IF Len(s) > 0 /\ ~IsAlnum(Head(s)) THEN SkipRun(Tail(s)) ELSE s

RECURSIVE ReplaceAllNonAlnum(_)
ReplaceAllNonAlnum(s) ==
  IF Len(s) = 0 THEN <<>>
  ELSE IF IsAlnum(Head(s)) THEN <<Head(s)>> \o ReplaceAllNonAlnum(Tail(s))
  ELSE ReplaceAllNonAlnum(SkipRun(Tail(s)))

\* strings.ToLower on ASCII bytes.
ToLower(s) == [i \in 1..Len(s) |-> IF s[i] >= 65 /\ s[i] <= 90 THEN s[i] + 32 ELSE s[i]]

\* Go's < on strings: bytewise lexicographic order.
RECURSIVE StrLess(_, _)
StrLess(a, b) ==
  IF Len(b) = 0 THEN FALSE
  ELSE IF Len(a) = 0 THEN TRUE
  ELSE IF Head(a) # Head(b) THEN Head(a) < Head(b)
  ELSE StrLess(Tail(a), Tail(b))

\* ------------------------------------------------- admissionWebhook

ErrNil == "nil"
ErrRules == "field rules should not be empty"
ErrName == "field name should not be empty"
ErrType == "unsupported Type"
ErrPath == "field path should not be empty"

\* The early return of setDefaults: the path is empty and there is no first
\* resource to derive it from.
SkipDefaulting(wh) ==
  Len(wh.path) = 0 /\ (Len(wh.rules) = 0 \/ Len(wh.rules[1].Resources) = 0)

\* PathDefault with the two prefixes exchanged.
PathDefaultSwapped(wh) ==
  IF Len(wh.path) = 0
  THEN IF wh.t = "Mutating" THEN ValidatePrefix \o wh.rules[1].Resources[1]
       ELSE IF wh.t = "Validating" THEN MutatePrefix \o wh.rules[1].Resources[1]
       ELSE wh.path
  ELSE wh.path

\* The path after the path block of setDefaults (not reached on the early
\* return).
PathDefault(wh) ==
  IF Len(wh.path) = 0
  THEN IF wh.t = "Mutating" THEN MutatePrefix \o wh.rules[1].Resources[1]
       ELSE IF wh.t = "Validating" THEN ValidatePrefix \o wh.rules[1].Resources[1]
       ELSE wh.path
  ELSE wh.path

\* NameDefault without strings.ToLower.
NameDefaultNoLower(wh) ==
  IF Len(wh.name) = 0
  THEN ReplaceAllNonAlnum(wh.path) \o NameSuffix
  ELSE wh.name

\* The name after the name block of setDefaults.
NameDefault(wh) ==
  IF Len(wh.name) = 0
  THEN ToLower(ReplaceAllNonAlnum(wh.path)) \o NameSuffix
  ELSE wh.name

setDefaults(wh) ==
  IF SkipDefaulting(wh) THEN wh
  ELSE LET w1 == [wh EXCEPT !.path = PathDefault(wh)]
       IN [w1 EXCEPT !.name = NameDefault(w1)]

\* w.once.Do(w.setDefaults), run to completion by a single caller.
onceDo(wh) == IF wh.once THEN wh ELSE [setDefaults(wh) EXCEPT !.once = TRUE]

\* ValidateChecks with the name checked before the rules.
ValidateChecksNameFirst(wh) ==
  IF Len(wh.name) = 0 THEN ErrName
  ELSE IF Len(wh.rules) = 0 THEN ErrRules
  ELSE IF wh.t # "Mutating" /\ wh.t # "Validating" THEN ErrType
  ELSE IF Len(wh.path) = 0 THEN ErrPath
  ELSE ErrNil

\* The four checks of Validate, on the descriptor as it is after once.Do.
ValidateChecks(wh) ==
  IF Len(wh.rules) = 0 THEN ErrRules
  ELSE IF Len(wh.name) = 0 THEN ErrName
  ELSE IF wh.t # "Mutating" /\ wh.t # "Validating" THEN ErrType
  ELSE IF Len(wh.path) = 0 THEN ErrPath
  ELSE ErrNil

\* What each accessor returns from the descriptor after once.Do.
Result(op, wh) ==
  CASE op = "GetName" -> wh.name
    [] op = "GetPath" -> wh.path
    [] op = "GetType" -> wh.t
    [] op = "Validate" -> ValidateChecks(wh)

\* ------------------------------------------------- generatorOptions

\* 443, the port defaulted by setDefault.
DefaultPort == 443

\* 443, the port of the generated Service.
ServicePort == 443

\* "https", "://", "localhost"
SchemeHTTPS == <<104, 116, 116, 112, 115>>
SchemeSep == <<58, 47, 47>>
Localhost == <<108, 111, 99, 97, 108, 104, 111, 115, 116>>

\* path.Join("k8s-webhook-server", "cert")
DefaultCertDir == "k8s-webhook-server/cert"

\* "a b": a host name url.Parse rejects.
BadHost == <<97, 32, 98>>

\* The iteration orders a range over a map with key set S may take.
Perms(S) ==
  {f \in [1..Cardinality(S) -> S] : \A i, j \in 1..Cardinality(S) : f[i] = f[j] => i = j}

\* The map held by o.registry; ranging over a nil map visits nothing.
Registry(o) == IF o.registry = <<>> THEN <<>> ELSE o.registry[1]

setDefault(o) ==
  [o EXCEPT
     !.registry = IF @ = <<>> THEN << <<>> >> ELSE @,
     !.port = IF @ <= 0 THEN DefaultPort ELSE @,
     !.certDir = IF @ = "" THEN DefaultCertDir ELSE @,
     !.mutatingWebhookConfigName = IF @ = "" THEN "mutating-webhook-configuration" ELSE @,
     !.validatingWebhookConfigName = IF @ = "" THEN "validating-webhook-configuration" ELSE @,
     !.host = IF o.host = <<>> /\ o.service = <<>> THEN <<Localhost>> ELSE @]

\* strconv.Itoa
RECURSIVE Digits(_)
Digits(n) == IF n < 10 THEN <<48 + n>> ELSE Digits(n \div 10) \o <<48 + (n % 10)>>

Itoa(n) == IF n < 0 THEN <<45>> \o Digits(0 - n) ELSE Digits(n)

Contains(s, c) == \E i \in 1..Len(s) : s[i] = c

\* net.JoinHostPort: a host holding a colon is put in brackets.
JoinHostPort(host, port) ==
  IF Contains(host, 58) THEN <<91>> \o host \o <<93, 58>> \o port
  ELSE host \o <<58>> \o port

\* The escaping url.URL.String applies to the host: of the bytes the model's
\* hosts hold, only the space is escaped (to "%20").
RECURSIVE EscapeHost(_)
EscapeHost(h) ==
  IF Len(h) = 0 THEN <<>>
  ELSE (IF Head(h) = 32 THEN <<37, 50, 48>> ELSE <<Head(h)>>) \o EscapeHost(Tail(h))

\* url.URL.String for a URL with a scheme and a host.  The paths of the model
\* hold only bytes that EscapedPath leaves as they are.
URLString(u) ==
  u.Scheme \o SchemeSep \o EscapeHost(u.Host)
    \o (IF Len(u.Path) > 0 /\ u.Path[1] # 47 THEN <<47>> ELSE <<>>) \o u.Path

\* The first index of byte c in s at or after from; Len(s) + 1 when absent.
RECURSIVE IndexFrom(_, _, _)
IndexFrom(s, c, from) ==
  IF from > Len(s) THEN Len(s) + 1
  ELSE IF s[from] = c THEN from
  ELSE IndexFrom(s, c, from + 1)

\* url.Parse, once the colon ending the scheme and the slash ending the
\* authority are found.  A percent escape in the host other than %25 whose
\* first digit is below 8 is an error, as "%20" is.
URLParseAt(s, colon, slash) ==
  [u |-> [Scheme |-> SubSeq(s, 1, colon - 1),
          Host |-> SubSeq(s, colon + 3, slash - 1),
          Path |-> SubSeq(s, slash, Len(s))],
   err |-> IF Contains(SubSeq(s, colon + 3, slash - 1), 37)
           THEN "invalid URL escape" ELSE ErrNil]

URLParseFrom(s, colon) == URLParseAt(s, colon, IndexFrom(s, 47, colon + 3))

\* url.Parse of "scheme://authority[/path]".
URLParse(s) == URLParseFrom(s, IndexFrom(s, 58, 1))

ErrConflict == "URL and service can't be set at the same time"

getClientConfig(o) ==
  IF o.host # <<>> /\ o.service # <<>>
  THEN [cc |-> <<>>, err |-> ErrConflict]
  ELSE [cc |-> [CABundle |-> <<>>,
                URL |-> IF o.host # <<>>
                        THEN <<URLString([Scheme |-> SchemeHTTPS,
                                          Host |-> JoinHostPort(o.host[1], Itoa(o.port)),
                                          Path |-> <<>>])>>
                        ELSE <<>>,
                Service |-> IF o.service # <<>>
                            THEN <<[Name |-> o.service[1].name,
                                    Namespace |-> o.service[1].namespace,
                                    Path |-> <<>>]>>
                            ELSE <<>>],
        err |-> ErrNil]

\* setPath, given what url.Parse made of cc.URL (no error when cc has no
\* URL): the path goes into the URL, when there is one, and into the service
\* reference, when there is one.
setPathParsed(cc, path, parsed) ==
  IF parsed.err # ErrNil THEN [cc |-> cc, err |-> parsed.err]
  ELSE [cc |-> [cc EXCEPT
                  !.URL = IF @ # <<>>
                          THEN <<URLString([parsed.u EXCEPT !.Path = path])>>
                          ELSE @,
                  !.Service = IF @ # <<>>
                              THEN <<[@[1] EXCEPT !.Path = <<path>>]>>
                              ELSE @],
        err |-> ErrNil]

setPath(cc, path) ==
  setPathParsed(cc, path, IF cc.URL # <<>> THEN URLParse(cc.URL[1]) ELSE [err |-> ErrNil])

\* getClientConfigWithPath, given what getClientConfig returned.
withPath(r, path) ==
  IF r.err # ErrNil THEN [cc |-> <<>>, err |-> r.err]
  ELSE setPath(r.cc, path)

getClientConfigWithPath(o, path) == withPath(getClientConfig(o), path)

\* The selector "label control-plane does not exist".
DefaultSelector == [Key |-> "control-plane", Operator |-> "DoesNotExist"]

\* A selector set by the user.
UserSelector == [Key |-> "env", Operator |-> "Exists"]

\* SelectorDefault without the test of the service's namespace.
SelectorDefaultAnyService(o, wh) ==
  IF wh.namespaceSelector = <<>> /\ o.service # <<>>
  THEN <<DefaultSelector>>
  ELSE wh.namespaceSelector

\* The namespace selector admissionWebhook leaves in the descriptor.
SelectorDefault(o, wh) ==
  IF wh.namespaceSelector = <<>> /\ o.service # <<>> /\ o.service[1].namespace # ""
  THEN <<DefaultSelector>>
  ELSE wh.namespaceSelector

\* admissionWebhook, given the descriptor with its selector defaulted and
\* what getClientConfigWithPath returned: the descriptor, the entry built
\* (nil on an error) and the error.
buildWebhook(wh, r) ==
  IF r.err # ErrNil THEN [wh |-> wh, webhook |-> <<>>, err |-> r.err]
  ELSE [wh |-> wh,
        webhook |-> <<[Name |-> wh.name,
                       Rules |-> wh.rules,
                       FailurePolicy |-> wh.failurePolicy,
                       NamespaceSelector |-> wh.namespaceSelector,
                       ClientConfig |-> r.cc]>>,
        err |-> ErrNil]

admissionWebhook(o, path, wh) ==
  buildWebhook([wh EXCEPT !.namespaceSelector = SelectorDefault(o, wh)],
               getClientConfigWithPath(o, path))

\* Validate: once.Do, then the checks.
Validate(wh) == [wh |-> onceDo(wh), err |-> ValidateChecks(onceDo(wh))]

\* The loop of whConfigs that validates every descriptor, visiting the
\* registry in the order ord; it stops at the first error.
RECURSIVE validateLoop(_, _)
\* validateStep without the return on an error.
validateStepKeepsGoing(reg, ord, v) ==
  validateLoop([reg EXCEPT ![Head(ord)] = v.wh], Tail(ord))

validateStep(reg, ord, v) ==
  IF v.err # ErrNil THEN [reg |-> [reg EXCEPT ![Head(ord)] = v.wh], err |-> v.err]
  ELSE validateLoop([reg EXCEPT ![Head(ord)] = v.wh], Tail(ord))

validateLoop(reg, ord) ==
  IF Len(ord) = 0 THEN [reg |-> reg, err |-> ErrNil]
  ELSE validateStep(reg, ord, Validate(reg[Head(ord)]))

\* The loop of mutatingWHConfigs (kind "Mutating") and validatingWHConfigs
\* (kind "Validating"): one entry per descriptor of the kind, appended in the
\* order ord of the iteration.  collectEntry is the body of the loop once
\* GetType has run once.Do (wh is the descriptor after it), collectAppend the
\* body once admissionWebhook has returned r.
RECURSIVE collectWebhooks(_, _, _, _, _)
collectAppend(o, reg, ord, kind, acc, r) ==
  IF r.err # ErrNil
  THEN [reg |-> [reg EXCEPT ![Head(ord)] = r.wh], webhooks |-> <<>>, err |-> r.err]
  ELSE collectWebhooks(o, [reg EXCEPT ![Head(ord)] = r.wh], Tail(ord), kind,
                       acc \o r.webhook)

collectEntry(o, reg, ord, kind, acc, wh) ==
  IF wh.t # kind
  THEN [wh |-> wh, webhook |-> <<>>, err |-> ErrNil]
  ELSE admissionWebhook(o, Head(ord), wh)

collectWebhooks(o, reg, ord, kind, acc) ==
  IF Len(ord) = 0 THEN [reg |-> reg, webhooks |-> acc, err |-> ErrNil]
  ELSE collectAppend(o, reg, ord, kind, acc,
                     collectEntry(o, reg, ord, kind, acc, onceDo(reg[Head(ord)])))

\* sort.Slice with less = Name < Name.  On a slice of fewer than 12 elements
\* it is an insertion sort: each element moves left past the elements whose
\* name is greater than its own.
RECURSIVE insertByName(_, _)
insertByName(sorted, e) ==
  IF Len(sorted) = 0 THEN <<e>>
  ELSE IF StrLess(e.Name, sorted[Len(sorted)].Name)
       THEN insertByName(SubSeq(sorted, 1, Len(sorted) - 1), e) \o <<sorted[Len(sorted)]>>
       ELSE sorted \o <<e>>

\* sortSlice leaving the slice as it is.
sortSliceNoSort(s) == s

RECURSIVE sortSlice(_)
sortSlice(s) ==
  IF Len(s) = 0 THEN <<>>
  ELSE insertByName(sortSlice(SubSeq(s, 1, Len(s) - 1)), s[Len(s)])

APIVersion == "admissionregistration.k8s.io/v1beta1"

\* The configuration object of a kind, nil when it has no entry.
whConfig(kind, name, annotation, webhooks) ==
  IF Len(webhooks) > 0
  THEN <<[Kind |-> kind, APIVersion |-> APIVersion, Name |-> name,
          Annotations |-> annotation, Webhooks |-> webhooks]>>
  ELSE <<>>

\* mutatingWHConfigs, given what its loop returned.
mutatingObject(o, r) ==
  [o |-> [o EXCEPT !.registry = <<r.reg>>],
   obj |-> IF r.err # ErrNil THEN <<>>
           ELSE whConfig("MutatingWebhookConfiguration", o.mutatingWebhookConfigName,
                         "admissionwebhook.alpha.kubebuilder.io/ca-secret-name=webhook-cert",
                         sortSlice(r.webhooks)),
   err |-> r.err]

\* validatingWHConfigs, given what its loop returned.
validatingObject(o, r) ==
  [o |-> [o EXCEPT !.registry = <<r.reg>>],
   obj |-> IF r.err # ErrNil THEN <<>>
           ELSE whConfig("ValidatingWebhookConfiguration", o.validatingWebhookConfigName,
                         "admission.alpha.kubebuilder.io/ca-secret-name=webhook-cert",
                         sortSlice(r.webhooks)),
   err |-> r.err]

\* mutatingWHConfigs: obj is nil when no descriptor is mutating.
mutatingWHConfigs(o, ord) ==
  mutatingObject(o, collectWebhooks(o, Registry(o), ord, "Mutating", <<>>))

\* validatingWHConfigs: obj is nil when no descriptor is validating.
validatingWHConfigs(o, ord) ==
  validatingObject(o, collectWebhooks(o, Registry(o), ord, "Validating", <<>>))

\* A nil runtime.Object held in a slice.
NilObject == [Kind |-> "nil"]

\* getService: nil when no service is configured.
getService(o) ==
  IF o.service = <<>> THEN NilObject
  ELSE [Kind |-> "Service",
        APIVersion |-> "v1",
        Name |-> o.service[1].name,
        Namespace |-> o.service[1].namespace,
        Annotations |-> "service.alpha.kubebuilder.io/serving-cert-secret-name=webhook-cert",
        Selector |-> o.service[1].selectors,
        Port |-> ServicePort,
        TargetPort |-> o.port]

\* ------------------------------------------------------------- state

VARIABLES
  o,        \* the generatorOptions Generate is called on
  o0,       \* the options as the caller built them
  gpc,      \* where Generate is: init, whConfigs, mutating, validating, service, done
  objs,     \* whConfigs' slice objs
  objects,  \* the slice Generate returned
  err,      \* the error Generate returned
  w,        \* a descriptor shared by the goroutines of Procs
  w0,       \* that descriptor as it was built
  onceM,    \* the goroutine holding the mutex of w.once, 0 when free
  pc,       \* where each goroutine is in its accessor call
  op,       \* the accessor each goroutine called last
  ret,      \* what that call returned (nil until it returns)
  nRuns     \* how many times setDefaults was entered on w

genVars == <<o, o0, gpc, objs, objects, err>>
whVars == <<w, w0, onceM, pc, op, ret, nRuns>>
vars == <<o, o0, gpc, objs, objects, err, w, w0, onceM, pc, op, ret, nRuns>>

Procs == 1..NumProcs

Ops == {"GetName", "GetPath", "GetType", "Validate"}

\* The registry's paths: "/a", "/b", "/c", ...
KeyOf(i) == <<47, 96 + i>>
Keys == {KeyOf(i) : i \in 1..MaxWebhooks}

Rule(resources) == [Resources |-> resources]

Webhook(name, t, path, rules, sel) ==
  [name |-> name, t |-> t, path |-> path, rules |-> rules,
   failurePolicy |-> <<>>, namespaceSelector |-> sel, once |-> FALSE]

\* The descriptors a registry is built from: named and unnamed ones, with and
\* without a path and a selector, of both kinds, and two that fail Validate.
GenWebhooks ==
  { Webhook(<<98>>, "Mutating", <<>>, <<Rule(<<ResPods>>)>>, <<>>),
    Webhook(<<97>>, "Mutating", <<47, 109>>, <<Rule(<<ResPods>>)>>, <<UserSelector>>),
    Webhook(<<>>, "Validating", <<>>, <<Rule(<<ResPods>>)>>, <<>>),
    Webhook(<<97>>, "Validating", <<47, 118>>, <<Rule(<<ResJobs, ResPods>>)>>, <<UserSelector>>),
    Webhook(<<>>, "Mutating", <<>>, <<>>, <<>>),
    Webhook(<<99>>, "Other", <<47, 120>>, <<Rule(<<ResPods>>)>>, <<>>) }

Registries ==
  {<<>>} \cup {<<reg>> : reg \in UNION {[K -> GenWebhooks] : K \in SUBSET Keys}}

Services ==
  {<<>>} \cup {<<[name |-> "svc", namespace |-> ns, selectors |-> "app=webhook"]>> :
                 ns \in {"", "system"}}

Hosts == {<<>>, <<Localhost>>, <<BadHost>>}

Ports == {0, 8443}

Options ==
  {[registry |-> reg, port |-> port, certDir |-> "",
    mutatingWebhookConfigName |-> "", validatingWebhookConfigName |-> "",
    service |-> svc, host |-> host] :
     reg \in Registries, port \in Ports, svc \in Services, host \in Hosts}

\* The descriptors the goroutines share: every combination of
\* "" or "N" as name, a kind, "" or "/P-1" as path and a list of rules.
Names == {<<>>, <<78>>}
Paths == {<<>>, <<47, 80, 45, 45, 49>>}
Kinds == {"Mutating", "Validating", "Other"}
RuleLists ==
  { <<>>, <<Rule(<<>>)>>, <<Rule(<<ResPods>>)>>,
    <<Rule(<<ResJobs, ResPods>>), Rule(<<ResPods>>)>> }

Webhooks ==
  {Webhook(name, t, path, rules, <<>>) :
     name \in Names, t \in Kinds, path \in Paths, rules \in RuleLists}

\* ---------------------------------------------------- Generate, by step

GenIdle ==
  /\ o = [registry |-> <<>>, port |-> 0, certDir |-> "",
          mutatingWebhookConfigName |-> "", validatingWebhookConfigName |-> "",
          service |-> <<>>, host |-> <<>>]
  /\ o0 = o
  /\ gpc = "off"
  /\ objs = <<>>
  /\ objects = <<>>
  /\ err = ErrNil

GenInit ==
  /\ o \in Options
  /\ o0 = o
  /\ gpc = "init"
  /\ objs = <<>>
  /\ objects = <<>>
  /\ err = ErrNil

\* The caller runs setDefault itself, before Generate.
SetDefault ==
  /\ gpc = "init"
  /\ o' = setDefault(o)
  /\ UNCHANGED <<o0, gpc, objs, objects, err, whVars>>

\* Generate, line 108.
GenerateSetDefault ==
  /\ gpc = "init"
  /\ o' = setDefault(o)
  /\ gpc' = "whConfigs"
  /\ UNCHANGED <<o0, objs, objects, err, whVars>>

\* whConfigs, lines 175-181, given what the loop returned; on an error
\* whConfigs and Generate return it.
Validated(r) ==
  /\ o' = [o EXCEPT !.registry = <<r.reg>>]
  /\ IF r.err # ErrNil
     THEN /\ gpc' = "done"
          /\ err' = r.err
          /\ objects' = <<>>
     ELSE /\ gpc' = "mutating"
          /\ UNCHANGED <<err, objects>>
  /\ objs' = <<>>

WhConfigsValidate ==
  /\ gpc = "whConfigs"
  /\ \E ord \in Perms(DOMAIN Registry(o)) : Validated(validateLoop(Registry(o), ord))
  /\ UNCHANGED <<o0, whVars>>

\* whConfigs, given what mutatingWHConfigs or validatingWHConfigs returned:
\* an error is returned by whConfigs and by Generate, a configuration that is
\* not nil is appended to objs.
Configured(r, next) ==
  /\ o' = r.o
  /\ IF r.err # ErrNil
     THEN /\ gpc' = "done"
          /\ err' = r.err
          /\ objects' = <<>>
          /\ UNCHANGED objs
     ELSE /\ gpc' = next
          /\ objs' = objs \o r.obj
          /\ UNCHANGED <<err, objects>>

\* whConfigs, lines 182-188.
WhConfigsMutating ==
  /\ gpc = "mutating"
  /\ \E ord \in Perms(DOMAIN Registry(o)) : Configured(mutatingWHConfigs(o, ord), "validating")
  /\ UNCHANGED <<o0, whVars>>

\* whConfigs, lines 189-196.
WhConfigsValidating ==
  /\ gpc = "validating"
  /\ \E ord \in Perms(DOMAIN Registry(o)) : Configured(validatingWHConfigs(o, ord), "service")
  /\ UNCHANGED <<o0, whVars>>

\* Generate, lines 114-117.
GenerateReturn ==
  /\ gpc = "service"
  /\ objects' = Append(objs, getService(o))
  /\ gpc' = "done"
  /\ UNCHANGED <<o, o0, objs, err, whVars>>

\* ------------------------------------------- the accessors, by goroutine

WhIdle ==
  /\ w = Webhook(<<>>, "Mutating", <<>>, <<>>, <<>>)
  /\ w0 = w
  /\ onceM = 0
  /\ pc = [p \in Procs |-> "off"]
  /\ op = [p \in Procs |-> "GetName"]
  /\ ret = [p \in Procs |-> <<>>]
  /\ nRuns = 0

WhInit ==
  /\ w \in Webhooks
  /\ w0 = w
  /\ onceM = 0
  /\ pc = [p \in Procs |-> "idle"]
  /\ op = [p \in Procs |-> "GetName"]
  /\ ret = [p \in Procs |-> <<>>]
  /\ nRuns = 0

\* A goroutine calls GetName, GetPath, GetType or Validate.
Call(p) ==
  /\ pc[p] \in {"idle", "done"}
  /\ \E f \in Ops : op' = [op EXCEPT ![p] = f]
  /\ pc' = [pc EXCEPT ![p] = "do"]
  /\ ret' = [ret EXCEPT ![p] = <<>>]
  /\ UNCHANGED <<w, w0, onceM, nRuns, genVars>>

\* once.Do: the load of done before the mutex is taken.
DoFast(p) ==
  /\ pc[p] = "do"
  /\ pc' = [pc EXCEPT ![p] = IF w.once THEN "read" ELSE "lock"]
  /\ UNCHANGED <<w, w0, onceM, op, ret, nRuns, genVars>>

\* DoLock without the second look at done.
DoLockNoRecheck(p) ==
  /\ pc[p] = "lock"
  /\ onceM = 0
  /\ onceM' = p
  /\ pc' = [pc EXCEPT ![p] = "setDefaults"]
  /\ nRuns' = nRuns + 1
  /\ UNCHANGED <<w, w0, op, ret, genVars>>

\* once.Do: the mutex is taken and done is looked at again; setDefaults is
\* entered only when it is still unset.
DoLock(p) ==
  /\ pc[p] = "lock"
  /\ onceM = 0
  /\ onceM' = p
  /\ IF w.once
     THEN /\ pc' = [pc EXCEPT ![p] = "unlock"]
          /\ UNCHANGED nRuns
     ELSE /\ pc' = [pc EXCEPT ![p] = "setDefaults"]
          /\ nRuns' = nRuns + 1
  /\ UNCHANGED <<w, w0, op, ret, genVars>>

\* setDefaults, lines 52-62.
SetDefaultsPath(p) ==
  /\ pc[p] = "setDefaults"
  /\ IF SkipDefaulting(w)
     THEN /\ pc' = [pc EXCEPT ![p] = "unlock"]
          /\ UNCHANGED w
     ELSE /\ pc' = [pc EXCEPT ![p] = "setName"]
          /\ w' = [w EXCEPT !.path = PathDefault(w)]
  /\ UNCHANGED <<w0, onceM, op, ret, nRuns, genVars>>

\* setDefaults, lines 63-67.
SetDefaultsName(p) ==
  /\ pc[p] = "setName"
  /\ w' = [w EXCEPT !.name = NameDefault(w)]
  /\ pc' = [pc EXCEPT ![p] = "unlock"]
  /\ UNCHANGED <<w0, onceM, op, ret, nRuns, genVars>>

\* once.Do: the deferred store of done and the deferred unlock.
DoUnlock(p) ==
  /\ pc[p] = "unlock"
  /\ onceM = p
  /\ w' = [w EXCEPT !.once = TRUE]
  /\ onceM' = 0
  /\ pc' = [pc EXCEPT ![p] = "read"]
  /\ UNCHANGED <<w0, op, ret, nRuns, genVars>>

\* The accessor reads its field (Validate runs its checks) and returns.
Read(p) ==
  /\ pc[p] = "read"
  /\ ret' = [ret EXCEPT ![p] = <<Result(op[p], w)>>]
  /\ pc' = [pc EXCEPT ![p] = "done"]
  /\ UNCHANGED <<w, w0, onceM, op, nRuns, genVars>>

\* ---------------------------------------------------- specifications

Init == GenInit /\ WhIdle

Next ==
  \/ SetDefault
  \/ GenerateSetDefault
  \/ WhConfigsValidate
  \/ WhConfigsMutating
  \/ WhConfigsValidating
  \/ GenerateReturn

Spec == Init /\ [][Next]_vars

InitWebhook == WhInit /\ GenIdle

NextWebhook ==
  \E p \in Procs :
    \/ Call(p)
    \/ DoFast(p)
    \/ DoLock(p)
    \/ SetDefaultsPath(p)
    \/ SetDefaultsName(p)
    \/ DoUnlock(p)
    \/ Read(p)

SpecWebhook == InitWebhook /\ [][NextWebhook]_vars

\* ------------------------------------------------------------ claims

Succeeded == gpc = "done" /\ err = ErrNil

\* The registry the caller passed.
Registry0 == Registry(o0)

KeysOfKind(kind) == {k \in DOMAIN Registry0 : Registry0[k].t = kind}

\* The webhook configurations among the returned objects.
Configs ==
  {objects[i] : i \in {j \in 1..Len(objects) :
     objects[j].Kind \in {"MutatingWebhookConfiguration", "ValidatingWebhookConfiguration"}}}

KindOfConfig(c) ==
  IF c.Kind = "MutatingWebhookConfiguration" THEN "Mutating" ELSE "Validating"

\* The path an entry's client configuration points to.
EntryPath(e) ==
  IF e.ClientConfig.Service # <<>> THEN e.ClientConfig.Service[1].Path[1]
  ELSE SubSeq(e.ClientConfig.URL[1],
              IndexFrom(e.ClientConfig.URL[1], 47, Len(SchemeHTTPS) + Len(SchemeSep) + 1),
              Len(e.ClientConfig.URL[1]))

\* lowercase(s with every byte that is not ASCII alphanumeric removed)
LowerAlnum(s) == ToLower(SelectSeq(s, IsAlnum))

\* C1: whenever Generate succeeds, the returned list is exactly
\* [MutatingWebhookConfiguration if the registry has a mutating descriptor,
\* ValidatingWebhookConfiguration if it has a validating one, Service if a
\* service is configured], with no nil element.
C1_OnlyRealObjects ==
  Succeeded =>
    [i \in 1..Len(objects) |-> objects[i].Kind] =
      (IF KeysOfKind("Mutating") # {} THEN <<"MutatingWebhookConfiguration">> ELSE <<>>)
      \o (IF KeysOfKind("Validating") # {} THEN <<"ValidatingWebhookConfiguration">> ELSE <<>>)
      \o (IF o0.service # <<>> THEN <<"Service">> ELSE <<>>)

\* C2: whenever both host and service are set, Generate returns an error and
\* no objects, whatever the registry holds; setDefault leaves both set.
C2_ConflictIsAnError ==
  (o0.host # <<>> /\ o0.service # <<>>) =>
     /\ o.host = o0.host /\ o.service = o0.service
     /\ gpc = "done" => (err # ErrNil /\ objects = <<>>)

\* C3: when a descriptor of the registry fails Validate, Generate returns an
\* error and no objects; no object is ever returned together with an error.
C3_AllOrNothing ==
  gpc = "done" =>
     /\ (\E k \in DOMAIN Registry0 : Validate(Registry0[k]).err # ErrNil)
          => (err # ErrNil /\ objects = <<>>)
     /\ err # ErrNil => objects = <<>>

\* C3's case: Generate has returned on a registry that holds a descriptor
\* failing Validate next to one that passes it.
C3_Witness ==
  /\ gpc = "done"
  /\ \E k \in DOMAIN Registry0 : Validate(Registry0[k]).err # ErrNil
  /\ \E k \in DOMAIN Registry0 : Validate(Registry0[k]).err = ErrNil

\* The names and client configurations of a configuration's entries, by
\* position; the empty list for a nil configuration.
Entries(obj) ==
  IF obj = <<>> THEN <<>>
  ELSE [i \in 1..Len(obj[1].Webhooks) |->
          [Name |-> obj[1].Webhooks[i].Name,
           ClientConfig |-> obj[1].Webhooks[i].ClientConfig]]

\* C4: the entries of each webhook configuration (names and client-config
\* paths, by position) are the same for every iteration order of the registry.
C4_OrderIndependent ==
  [][/\ (gpc = "mutating" /\ gpc' = "validating") =>
          \A ord1, ord2 \in Perms(DOMAIN Registry(o)) :
             Entries(mutatingWHConfigs(o, ord1).obj) = Entries(mutatingWHConfigs(o, ord2).obj)
     /\ (gpc = "validating" /\ gpc' = "service") =>
          \A ord1, ord2 \in Perms(DOMAIN Registry(o)) :
             Entries(validatingWHConfigs(o, ord1).obj) = Entries(validatingWHConfigs(o, ord2).obj)
    ]_vars

\* C5: in every returned webhook configuration the entries are in ascending
\* order of name and are exactly the registry's descriptors of that kind, one
\* entry per descriptor, under the descriptor's name after defaulting.
C5_SortedAndComplete ==
  Succeeded =>
    \A c \in Configs :
      /\ \A i \in 1..(Len(c.Webhooks) - 1) :
            ~StrLess(c.Webhooks[i + 1].Name, c.Webhooks[i].Name)
      /\ Len(c.Webhooks) = Cardinality(KeysOfKind(KindOfConfig(c)))
      /\ \A k \in KeysOfKind(KindOfConfig(c)) :
            \E i \in 1..Len(c.Webhooks) :
               /\ EntryPath(c.Webhooks[i]) = k
               /\ c.Webhooks[i].Name = setDefaults(Registry0[k]).name

\* C5's case: a returned configuration holds two entries whose names are in
\* the opposite order of their paths.
C5_Witness ==
  /\ Succeeded
  /\ \E c \in Configs :
       /\ Len(c.Webhooks) = 2
       /\ StrLess(c.Webhooks[1].Name, c.Webhooks[2].Name)
       /\ StrLess(EntryPath(c.Webhooks[2]), EntryPath(c.Webhooks[1]))

\* C6: Validate returns an error exactly when, after defaulting, the rules
\* are empty, the name is empty, the kind is unsupported or the path is
\* empty, and the error is that of the first check failing in this order.
C6_ValidateErrors ==
  \A p \in Procs :
    (pc[p] = "done" /\ op[p] = "Validate") =>
       LET noRules == Len(w.rules) = 0
           noName  == Len(w.name) = 0
           badKind == w.t \notin {"Mutating", "Validating"}
           noPath  == Len(w.path) = 0
       IN /\ (ret[p][1] # ErrNil) <=> (noRules \/ noName \/ badKind \/ noPath)
          /\ noRules => ret[p][1] = ErrRules
          /\ (~noRules /\ noName) => ret[p][1] = ErrName
          /\ (~noRules /\ ~noName /\ badKind) => ret[p][1] = ErrType
          /\ (~noRules /\ ~noName /\ ~badKind /\ noPath) => ret[p][1] = ErrPath

\* C6's case: Validate has returned on a descriptor that fails several checks.
C6_Witness ==
  \E p \in Procs :
    /\ pc[p] = "done" /\ op[p] = "Validate"
    /\ Len(w.rules) = 0 /\ Len(w.name) = 0 /\ Len(w.path) = 0
    /\ ret[p][1] = ErrRules

\* C7 as stated: a descriptor with no name gets, by defaulting, the name
\* lowercase(alphanumerics of its path after path defaulting) + ".example.com";
\* a descriptor with a name keeps it.
C7_NameDerived ==
  w.once =>
     /\ Len(w0.name) = 0 => w.name = LowerAlnum(w.path) \o NameSuffix
     /\ Len(w0.name) > 0 => w.name = w0.name

\* C7 as amended: the same, except that a descriptor with no path whose rules
\* are empty or whose first rule has no resource keeps its empty name.
C7_NameDerivedUnlessSkipped ==
  w.once =>
     /\ (Len(w0.name) = 0
          /\ ~(Len(w0.path) = 0 /\ (Len(w0.rules) = 0 \/ Len(w0.rules[1].Resources) = 0)))
        => w.name = LowerAlnum(w.path) \o NameSuffix
     /\ (Len(w0.name) = 0
          /\ Len(w0.path) = 0 /\ (Len(w0.rules) = 0 \/ Len(w0.rules[1].Resources) = 0))
        => w.name = <<>>
     /\ Len(w0.name) > 0 => w.name = w0.name

\* C7's case: defaulting has named a descriptor "p1.example.com" after its
\* path "/P--1".
C7_Witness ==
  /\ w.once
  /\ Len(w0.name) = 0
  /\ w.path = <<47, 80, 45, 45, 49>>
  /\ w.name = <<112, 49>> \o NameSuffix

\* C8: under any interleaving of calls to the accessors, setDefaults runs at
\* most once, every accessor returns the value the descriptor has after that
\* one complete run, and once the run is over name and path are those it set.
C8_DefaultsOnce ==
  /\ nRuns <= 1
  /\ w.once => (nRuns = 1 /\ w = [setDefaults(w0) EXCEPT !.once = TRUE])
  /\ \A p \in Procs :
       pc[p] = "done" => ret[p] = <<Result(op[p], setDefaults(w0))>>

\* C8's case: a goroutine that found done unset has taken the mutex after
\* another goroutine's setDefaults changed the descriptor.
C8_Witness ==
  \E p \in Procs :
    /\ pc[p] = "unlock" /\ onceM = p
    /\ w.once /\ nRuns = 1
    /\ w.name # w0.name
    /\ \E q \in Procs \ {p} : pc[q] = "done"

\* C9: an entry carries the descriptor's own namespace selector when it has
\* one; otherwise the selector "control-plane does not exist" when a service
\* with a namespace is configured, and no selector when not.
C9_NamespaceSelector ==
  Succeeded =>
    \A c \in Configs : \A i \in 1..Len(c.Webhooks) :
      LET e == c.Webhooks[i]
          d == Registry0[EntryPath(e)]
      IN IF d.namespaceSelector # <<>>
         THEN e.NamespaceSelector = d.namespaceSelector
         ELSE IF o0.service # <<>> /\ o0.service[1].namespace # ""
         THEN e.NamespaceSelector = <<DefaultSelector>>
         ELSE e.NamespaceSelector = <<>>

\* C9's case: a returned configuration holds an entry with the default
\* selector and an entry with the user's.
C9_Witness ==
  /\ Succeeded
  /\ \E c, d \in Configs :
       /\ \E i \in 1..Len(c.Webhooks) : c.Webhooks[i].NamespaceSelector = <<DefaultSelector>>
       /\ \E i \in 1..Len(d.Webhooks) : d.Webhooks[i].NamespaceSelector = <<UserSelector>>

\* C10: defaulting gives a descriptor with no path, a rule and a resource in
\* its first rule the path "/mutate-" or "/validate-" + that rule's first
\* resource, by kind; with no rule or no resource in the first rule the path
\* stays empty; a path that was set is not changed.
C10_PathDerived ==
  w.once =>
     /\ (Len(w0.path) = 0 /\ Len(w0.rules) > 0 /\ Len(w0.rules[1].Resources) > 0) =>
           /\ w0.t = "Mutating" => w.path = MutatePrefix \o w0.rules[1].Resources[1]
           /\ w0.t = "Validating" => w.path = ValidatePrefix \o w0.rules[1].Resources[1]
     /\ (Len(w0.path) = 0 /\ (Len(w0.rules) = 0 \/ Len(w0.rules[1].Resources) = 0)) =>
           w.path = <<>>
     /\ Len(w0.path) > 0 => w.path = w0.path

\* C10's case: defaulting has set the path "/mutate-Jobs" from the first
\* resource of the first of two rules.
C10_Witness ==
  /\ w.once
  /\ Len(w0.path) = 0
  /\ Len(w0.rules) = 2
  /\ w.path = MutatePrefix \o ResJobs

====
